---- MODULE Spec2Model ----
(***************************************************************************)
(* boost::sort::spreadsort string_sort / reverse_string_sort.              *)
(*                                                                         *)
(* The entry points of include/boost/sort/spreadsort/string_sort.hpp are   *)
(* modelled from their code.  The radix engine they delegate to            *)
(* (detail::string_sort, detail::reverse_string_sort) and the tuning       *)
(* constants live in detail/ headers; they are modelled from the design    *)
(* description: Termination Handler, Bucket Partitioner, Recursion         *)
(* Controller and Reverse Adapter, run from an explicit LIFO work-list.    *)
(*                                                                         *)
(* A sequence position is 1-based; a range [lo, hi) holds lo .. hi-1.      *)
(***************************************************************************)
EXTENDS Integers, Sequences, FiniteSets, TLC

VARIABLES
  seq,      \* the caller's sequence, sorted in place
  input,    \* the sequence as it was when the call began
  entry,    \* the entry point called
  comp,     \* the comparison functor passed ("none" where there is none)
  prev,     \* the call made before this one on the same input, if any
  pc,       \* "call", "skip", "rskip", "engine", "done", "faulted"
  first,    \* the entry point's first iterator
  last,     \* the entry point's last iterator
  stack,    \* work-list of ranges still to be partitioned
  cur,      \* the partitioning pass in progress
  parts,    \* history: the ranges handed to the Bucket Partitioner
  buckets,  \* history: the buckets the passes have created
  fault,    \* the fault raised: its kind and where it was raised
  oob,      \* history: an iterator outside the sequence was dereferenced
  handled,  \* history: what the Recursion Controller did with each bucket
  reads     \* history: the digit accessor's invocations (key length, offset)

vars == <<seq, input, entry, comp, prev, pc, first, last, stack, cur,
          parts, buckets, fault, oob, handled, reads>>

\* What a call never changes.
call == <<input, entry, comp, prev>>

(***************************************************************************)
(* Bounds of the model and (scaled) tuning constants of the program.       *)
(***************************************************************************)
\* longest key, in digits
MaxLen == 2
\* longest input sequence
MaxN == 4
\* number of distinct digit values (bin_count; 256 for unsigned char)
Radix == 2
\* detail::min_sort_size: below it every entry point calls std::sort
min_sort_size == 3
\* a bucket smaller than this is finished by the comparison sort
helper_threshold == 3
\* split cap: a path that has split this often is finished by comparison
max_splits == 2

Digits == 0 .. (Radix - 1)
Keys == UNION {[1 .. l -> Digits] : l \in 0 .. MaxLen}

\* An element carries its key and, as a tag, the index it had in the input.
Elem(k, i) == [k |-> k, id |-> i]
Inputs == UNION {{[i \in 1 .. n |-> Elem(ks[i], i)] : ks \in [1 .. n -> Keys]}
                 : n \in 0 .. MaxN}

\* What a moved-from element is left as (an empty key, no identity).
MovedFrom == [k |-> <<>>, id |-> 0]

(***************************************************************************)
(* Accessor contract and orderings.                                        *)
(***************************************************************************)
length(e) == Len(e.k)
getchar(e, o) == e.k[o + 1]

\* operator< of the value type: lexicographic, a strict prefix is smaller.
LexLess(x, y) ==
  \E i \in 1 .. Len(y) :
     /\ \A j \in 1 .. (i - 1) : j <= Len(x) /\ x[j] = y[j]
     /\ (i > Len(x) \/ x[i] < y[i])

\* The comparison functor c applied to (a, b).
Comp(c, a, b) == IF c = "less" THEN LexLess(a.k, b.k) ELSE LexLess(b.k, a.k)

Sorted(s, lo, hi, c) == \A i \in lo .. (hi - 2) : ~Comp(c, s[i + 1], s[i])

Perms(S) == {p \in [S -> S] : \A a, b \in S : p[a] = p[b] => a = b}

\* std::sort(first, last, comp) on [lo, hi): every outcome the library may
\* produce, i.e. every arrangement of the range that is ordered by c.  The
\* order of equivalent elements is not specified.
std_sort(s, lo, hi, c) ==
  {t \in {[i \in 1 .. Len(s) |-> IF i \in lo .. (hi - 1) THEN s[p[i]] ELSE s[i]]
          : p \in Perms(lo .. (hi - 1))} : Sorted(t, lo, hi, c)}

SwapElems(s, i, j) == [s EXCEPT ![i] = s[j], ![j] = s[i]]

(***************************************************************************)
(* Entry points.                                                           *)
(***************************************************************************)
Entries == {"string_sort", "reverse_string_sort", "string_sort_functor",
            "string_sort_functor_comp", "reverse_string_sort_functor"}

TakesComp(e) == e \in {"reverse_string_sort", "string_sort_functor_comp",
                       "reverse_string_sort_functor"}

\* Descending engine?
IsReverse(e) == e \in {"reverse_string_sort", "reverse_string_sort_functor"}

\* Mutant: std::sort is called without the functor.
SmallOrder_NoComp(e, c) == "less"

\* The ordering std::sort gets when the whole range is below min_sort_size.
SmallOrder(e, c) == IF TakesComp(e) THEN c ELSE "less"

\* The ordering the engine hands to std::sort for one bucket: the functor
\* where the entry point passes it on, the offset comparison otherwise.
BucketOrder(e, c) ==
  IF e \in {"string_sort_functor_comp", "reverse_string_sort_functor"} THEN c
  ELSE IF IsReverse(e) THEN "greater" ELSE "less"

\* The order the radix passes themselves produce.
DigitOrder(e) == IF IsReverse(e) THEN "greater" ELSE "less"

NoCall == [entry |-> "none"]
NoFault == [kind |-> "none", site |-> "none"]
FaultAt(kind, site) == [kind |-> kind, site |-> site]
Idle == [phase |-> "idle"]
Frame(lo, hi, offset, splits) ==
  [lo |-> lo, hi |-> hi, offset |-> offset, splits |-> splits]

Init ==
  /\ input \in Inputs
  /\ seq = input
  /\ entry \in Entries
  /\ comp \in IF TakesComp(entry) THEN {"less", "greater"} ELSE {"none"}
  /\ prev = NoCall
  /\ pc = "call"
  /\ first = 1
  /\ last = Len(input) + 1
  /\ stack = <<>>
  /\ cur = Idle
  /\ parts = <<>>
  /\ buckets = {}
  /\ fault = NoFault
  /\ oob = FALSE
  /\ handled = {}
  /\ reads = {}

\* if (last - first < detail::min_sort_size) std::sort(first, last [, comp]);
SmallSort ==
  /\ pc = "call"
  /\ last - first < min_sort_size
  /\ seq' \in std_sort(seq, first, last, SmallOrder(entry, comp))
  /\ pc' = "done"
  /\ UNCHANGED <<call, first, last, stack, cur, parts, buckets,
                 fault, oob, handled, reads>>

\* Mutant: the engine is called whatever the size (the else is missing).
CallDetail_NoThreshold ==
  /\ pc = "call"
  /\ entry \in {"string_sort", "reverse_string_sort"}
  /\ stack' = <<Frame(first, last, 0, 0)>>
  /\ pc' = "engine"
  /\ UNCHANGED <<seq, call, first, last, cur, parts, buckets,
                 fault, oob, handled, reads>>

\* string_sort(first, last [, unused]) and reverse_string_sort(first, last,
\* comp [, unused]): else detail::..._sort(first, last, unused);
CallDetail ==
  /\ pc = "call"
  /\ entry \in {"string_sort", "reverse_string_sort"}
  /\ ~(last - first < min_sort_size)
  /\ stack' = <<Frame(first, last, 0, 0)>>
  /\ pc' = "engine"
  /\ UNCHANGED <<seq, call, first, last, cur, parts, buckets,
                 fault, oob, handled, reads>>

\* Mutant: the descending entry point runs the ascending skip loop.
BeginSkip_AlwaysForward ==
  /\ pc = "call"
  /\ entry \in {"string_sort_functor", "string_sort_functor_comp",
                "reverse_string_sort_functor"}
  /\ ~(last - first < min_sort_size)
  /\ pc' = "skip"
  /\ UNCHANGED <<seq, call, first, last, stack, cur, parts,
                 buckets, fault, oob, handled, reads>>

\* the functor entry points: else { skip the empties ... }
BeginSkip ==
  /\ pc = "call"
  /\ entry \in {"string_sort_functor", "string_sort_functor_comp",
                "reverse_string_sort_functor"}
  /\ ~(last - first < min_sort_size)
  /\ pc' = IF IsReverse(entry) THEN "rskip" ELSE "skip"
  /\ UNCHANGED <<seq, call, first, last, stack, cur, parts,
                 buckets, fault, oob, handled, reads>>

InRange(i) == i \in 1 .. Len(seq)

\* One invocation of the digit accessor: getchar(k, off) on a key of length len.
DigitRead(len, off) == [len |-> len, off |-> off]

\* length(*it) where it may lie outside the sequence: any value then.
LengthsAt(i) == IF InRange(i) THEN {length(seq[i])} ELSE 0 .. MaxLen

\* Mutant: first is advanced once more before the engine is called.
SkipEmpties_PastFirst ==
  /\ pc = "skip"
  /\ oob' = (oob \/ ~InRange(first))
  /\ \E l \in LengthsAt(first) :
       IF l = 0
       THEN /\ first' = first + 1
            /\ pc' = IF first + 1 = last THEN "done" ELSE "skip"
            /\ UNCHANGED <<stack, reads>>
       ELSE /\ stack' = <<Frame(first + 1, last, 0, 0)>>
            /\ pc' = "engine"
            /\ reads' = reads \cup {DigitRead(l, 0)}
            /\ UNCHANGED first
  /\ UNCHANGED <<seq, call, last, cur, parts, buckets, fault,
                 handled>>

\* Mutant: the engine is handed the whole range, the skipped keys too.
SkipEmpties_WholeRange ==
  /\ pc = "skip"
  /\ oob' = (oob \/ ~InRange(first))
  /\ \E l \in LengthsAt(first) :
       IF l = 0
       THEN /\ first' = first + 1
            /\ pc' = IF first + 1 = last THEN "done" ELSE "skip"
            /\ UNCHANGED <<stack, reads>>
       ELSE /\ stack' = <<Frame(1, last, 0, 0)>>
            /\ pc' = "engine"
            /\ reads' = reads \cup {DigitRead(l, 0)}
            /\ UNCHANGED first
  /\ UNCHANGED <<seq, call, last, cur, parts, buckets, fault,
                 handled>>

\* Mutant: the loop tests first against last without advancing it.
SkipEmpties_NoAdvance ==
  /\ pc = "skip"
  /\ oob' = (oob \/ ~InRange(first))
  /\ \E l \in LengthsAt(first) :
       IF l = 0
       THEN /\ pc' = IF first = last THEN "done" ELSE "skip"
            /\ UNCHANGED <<first, stack, reads>>
       ELSE /\ stack' = <<Frame(first, last, 0, 0)>>
            /\ pc' = "engine"
            /\ reads' = reads \cup {DigitRead(l, 0)}
            /\ UNCHANGED first
  /\ UNCHANGED <<seq, call, last, cur, parts, buckets, fault,
                 handled>>

\* while (!length(*first)) { if (++first == last) return; }
\* detail::string_sort(first, last, getchar, length [, comp], getchar(*first, 0));
SkipEmpties ==
  /\ pc = "skip"
  /\ oob' = (oob \/ ~InRange(first))
  /\ \E l \in LengthsAt(first) :
       IF l = 0
       THEN /\ first' = first + 1
            /\ pc' = IF first + 1 = last THEN "done" ELSE "skip"
            /\ UNCHANGED <<stack, reads>>
       ELSE /\ stack' = <<Frame(first, last, 0, 0)>>
            /\ pc' = "engine"
            /\ reads' = reads \cup {DigitRead(l, 0)}
            /\ UNCHANGED first
  /\ UNCHANGED <<seq, call, last, cur, parts, buckets, fault,
                 handled>>

\* Mutant: the engine is handed [first, last) with last on the last
\* non-empty key, which is left out of the sort.
ReverseSkipEmpties_ShortRange ==
  /\ pc = "rskip"
  /\ last' = last - 1
  /\ oob' = (oob \/ ~InRange(last - 1))
  /\ \E l \in LengthsAt(last - 1) :
       IF l = 0
       THEN /\ pc' = IF first = last - 1 THEN "done" ELSE "rskip"
            /\ UNCHANGED <<stack, reads>>
       ELSE /\ stack' = <<Frame(first, last - 1, 0, 0)>>
            /\ pc' = "engine"
            /\ reads' = reads \cup {DigitRead(l, 0)}
  /\ UNCHANGED <<seq, call, first, cur, parts, buckets, fault,
                 handled>>

\* Mutant: the loop lacks the test that ends it at the start of the range.
ReverseSkipEmpties_NoGuard ==
  /\ pc = "rskip"
  /\ last' = last - 1
  /\ oob' = (oob \/ ~InRange(last - 1))
  /\ \E l \in LengthsAt(last - 1) :
       IF l = 0
       THEN /\ pc' = "rskip"
            /\ UNCHANGED <<stack, reads>>
       ELSE /\ stack' = <<Frame(first, last, 0, 0)>>
            /\ pc' = "engine"
            /\ reads' = reads \cup {DigitRead(l, 0)}
  /\ UNCHANGED <<seq, call, first, cur, parts, buckets, fault,
                 handled>>

\* Mutant: the leading digit is read before the key's length is tested.
ReverseSkipEmpties_ReadFirst ==
  /\ pc = "rskip"
  /\ last' = last - 1
  /\ oob' = (oob \/ ~InRange(last - 1))
  /\ \E l \in LengthsAt(last - 1) :
       /\ reads' = reads \cup {DigitRead(l, 0)}
       /\ IF l = 0
          THEN /\ pc' = IF first = last - 1 THEN "done" ELSE "rskip"
               /\ UNCHANGED stack
          ELSE /\ stack' = <<Frame(first, last, 0, 0)>>
               /\ pc' = "engine"
  /\ UNCHANGED <<seq, call, first, cur, parts, buckets, fault,
                 handled>>

\* while (!length(*(--last))) { if (first == last) return; }
\* detail::reverse_string_sort(first, last + 1, getchar, length, comp,
\*                             getchar(*last, 0));
ReverseSkipEmpties ==
  /\ pc = "rskip"
  /\ last' = last - 1
  /\ oob' = (oob \/ ~InRange(last - 1))
  /\ \E l \in LengthsAt(last - 1) :
       IF l = 0
       THEN /\ pc' = IF first = last - 1 THEN "done" ELSE "rskip"
            /\ UNCHANGED <<stack, reads>>
       ELSE /\ stack' = <<Frame(first, last, 0, 0)>>
            /\ pc' = "engine"
            /\ reads' = reads \cup {DigitRead(l, 0)}
  /\ UNCHANGED <<seq, call, first, cur, parts, buckets, fault,
                 handled>>

(***************************************************************************)
(* The radix engine.                                                       *)
(***************************************************************************)
Bins == 0 .. Radix

\* Termination Handler and digit extraction: the bin of element e at a given
\* offset.  A key that ends at the offset is terminal; ascending, the terminal
\* bin comes before the digit bins, descending it comes after them and the
\* digit bins are mirrored.
IsTerminal(e, offset) == length(e) <= offset

TerminalBin(rev) == IF rev THEN Radix ELSE 0

BinOf(e, offset, rev) ==
  IF IsTerminal(e, offset) THEN TerminalBin(rev)
  ELSE IF rev THEN Radix - 1 - getchar(e, offset)
  ELSE getchar(e, offset) + 1

\* The digit accessor's invocations when the elements of [lo, hi) are binned
\* at an offset: one on each key that is not terminal there.
DigitReads(s, lo, hi, offset) ==
  {DigitRead(length(s[i]), offset)
   : i \in {j \in lo .. (hi - 1) : ~IsTerminal(s[j], offset)}}

\* Counting pass: occurrences per bin over [lo, hi).
BinSize(s, lo, hi, offset, rev, b) ==
  Cardinality({i \in lo .. (hi - 1) : BinOf(s[i], offset, rev) = b})

RECURSIVE PrefixSum(_, _, _, _, _, _)
PrefixSum(s, lo, hi, offset, rev, b) ==
  IF b = 0 THEN lo
  ELSE PrefixSum(s, lo, hi, offset, rev, b - 1)
       + BinSize(s, lo, hi, offset, rev, b - 1)

\* Bin boundaries: where each bin starts, fixed by a prefix sum in bin order.
BinStarts(s, lo, hi, offset, rev) ==
  [b \in Bins |-> PrefixSum(s, lo, hi, offset, rev, b)]

BinEnd(c, b) == IF b = Radix THEN c.hi ELSE c.bins[b + 1]

\* Take the next range off the work-list; its bookkeeping is allocated next.
Enter ==
  /\ pc = "engine"
  /\ cur.phase = "idle"
  /\ stack # <<>>
  /\ LET f == stack[Len(stack)] IN
       /\ cur' = [phase |-> "alloc", lo |-> f.lo, hi |-> f.hi,
                  offset |-> f.offset, splits |-> f.splits, onEntry |-> seq]
       /\ parts' = Append(parts, f)
  /\ stack' = SubSeq(stack, 1, Len(stack) - 1)
  /\ UNCHANGED <<seq, call, pc, first, last, buckets, fault, oob,
                 handled, reads>>

\* Counters allocated; count per bin and compute the bin boundaries.
Count ==
  /\ pc = "engine"
  /\ cur.phase = "alloc"
  /\ LET st == BinStarts(seq, cur.lo, cur.hi, cur.offset, IsReverse(entry)) IN
       cur' = [phase |-> "permute", lo |-> cur.lo, hi |-> cur.hi,
               offset |-> cur.offset, splits |-> cur.splits,
               onEntry |-> cur.onEntry,
               bins |-> st, fill |-> st, u |-> 0, current |-> st[0]]
  /\ reads' = reads \cup DigitReads(seq, cur.lo, cur.hi, cur.offset)
  /\ UNCHANGED <<seq, call, pc, first, last, stack, parts,
                 buckets, fault, oob, handled>>

\* The permutation loop's scan: from bin u, position p, the next element that
\* is not in its own bin; bins are walked in order, each from its fill
\* pointer to its end.
RECURSIVE Scan(_, _, _, _, _)
Scan(s, c, rev, u, p) ==
  IF u > Radix THEN [done |-> TRUE, u |-> u, p |-> p]
  ELSE IF p >= BinEnd(c, u)
       THEN IF u = Radix THEN [done |-> TRUE, u |-> u, p |-> p]
            ELSE Scan(s, c, rev, u + 1, c.fill[u + 1])
  ELSE IF BinOf(s[p], c.offset, rev) = u THEN Scan(s, c, rev, u, p + 1)
  ELSE [done |-> FALSE, u |-> u, p |-> p]

NextMisplaced == Scan(seq, cur, IsReverse(entry), cur.u, cur.current)

\* One swap of the cycle-following permutation: the element at the scan
\* position goes to the next free slot of its target bin.
Swap ==
  /\ pc = "engine"
  /\ cur.phase = "permute"
  /\ LET r == NextMisplaced IN
       /\ ~r.done
       /\ LET t == BinOf(seq[r.p], cur.offset, IsReverse(entry)) IN
            /\ seq' = SwapElems(seq, r.p, cur.fill[t])
            /\ cur' = [cur EXCEPT !.u = r.u, !.current = r.p,
                                  !.fill[t] = @ + 1]
            /\ reads' = reads \cup DigitReads(seq, r.p, r.p + 1, cur.offset)
  /\ UNCHANGED <<call, pc, first, last, stack, parts, buckets,
                 fault, oob, handled>>

IdsIn(s, lo, hi) == {s[i].id : i \in lo .. (hi - 1)}

\* The buckets one finished pass has created (empty bins make no bucket).
NewBuckets(s, c) ==
  {[plo |-> c.lo, phi |-> c.hi, offset |-> c.offset, bin |-> b,
    lo |-> c.bins[b], hi |-> BinEnd(c, b),
    ids |-> IdsIn(s, c.bins[b], BinEnd(c, b))]
   : b \in {x \in Bins : c.bins[x] < BinEnd(c, x)}}

\* Every position visited: the pass has created its buckets.
PermuteDone ==
  /\ pc = "engine"
  /\ cur.phase = "permute"
  /\ NextMisplaced.done
  /\ buckets' = buckets \cup NewBuckets(seq, cur)
  /\ cur' = [phase |-> "dispatch", lo |-> cur.lo, hi |-> cur.hi,
             offset |-> cur.offset, splits |-> cur.splits,
             onEntry |-> cur.onEntry, bins |-> cur.bins, j |-> 0]
  /\ UNCHANGED <<seq, call, pc, first, last, stack, parts,
                 fault, oob, handled, reads>>

\* Recursion Controller: buckets that need more work are the digit buckets
\* with at least two elements.
NeedsWork(c, rev, b) ==
  /\ b # TerminalBin(rev)
  /\ BinEnd(c, b) - c.bins[b] >= 2

Pending(c, rev) == {b \in Bins : b >= c.j /\ NeedsWork(c, rev, b)}

Min(S) == CHOOSE x \in S : \A y \in S : x <= y

\* Mutant: the split cap is not looked at.
UseFallback_NoCap(c, b) == BinEnd(c, b) - c.bins[b] < helper_threshold

\* Finish by comparison: the bucket is small or the path has split enough.
UseFallback(c, b) ==
  \/ BinEnd(c, b) - c.bins[b] < helper_threshold
  \/ c.splits + 1 >= max_splits

\* What the controller did with bucket b of pass c: the bucket, the offset it
\* was made at, its path's split counter before and after, and the outcome.
Decision(c, b, how) ==
  [lo |-> c.bins[b], hi |-> BinEnd(c, b), offset |-> c.offset,
   before |-> c.splits, splits |-> c.splits + 1, how |-> how]

Fallback ==
  /\ pc = "engine"
  /\ cur.phase = "dispatch"
  /\ Pending(cur, IsReverse(entry)) # {}
  /\ LET b == Min(Pending(cur, IsReverse(entry))) IN
       /\ UseFallback(cur, b)
       /\ seq' \in std_sort(seq, cur.bins[b], BinEnd(cur, b),
                            BucketOrder(entry, comp))
       /\ cur' = [cur EXCEPT !.j = b + 1]
       /\ handled' = handled \cup {Decision(cur, b, "fallback")}
  /\ UNCHANGED <<call, pc, first, last, stack, parts, buckets,
                 fault, oob, reads>>

\* Mutant: the bucket handed on runs to the end of the pass's range.
Recurse_ToRangeEnd ==
  /\ pc = "engine"
  /\ cur.phase = "dispatch"
  /\ Pending(cur, IsReverse(entry)) # {}
  /\ LET b == Min(Pending(cur, IsReverse(entry))) IN
       /\ ~UseFallback(cur, b)
       /\ stack' = Append(stack, Frame(cur.bins[b], cur.hi,
                                       cur.offset + 1, cur.splits + 1))
       /\ cur' = [cur EXCEPT !.j = b + 1]
       /\ handled' = handled \cup {Decision(cur, b, "recurse")}
  /\ UNCHANGED <<seq, call, pc, first, last, parts, buckets,
                 fault, oob, reads>>

Recurse ==
  /\ pc = "engine"
  /\ cur.phase = "dispatch"
  /\ Pending(cur, IsReverse(entry)) # {}
  /\ LET b == Min(Pending(cur, IsReverse(entry))) IN
       /\ ~UseFallback(cur, b)
       /\ stack' = Append(stack, Frame(cur.bins[b], BinEnd(cur, b),
                                       cur.offset + 1, cur.splits + 1))
       /\ cur' = [cur EXCEPT !.j = b + 1]
       /\ handled' = handled \cup {Decision(cur, b, "recurse")}
  /\ UNCHANGED <<seq, call, pc, first, last, parts, buckets,
                 fault, oob, reads>>

\* No bucket of this pass is left: go on with the work-list, or return.
Leave ==
  /\ pc = "engine"
  /\ cur.phase = "dispatch"
  /\ Pending(cur, IsReverse(entry)) = {}
  /\ cur' = Idle
  /\ pc' = IF stack = <<>> THEN "done" ELSE "engine"
  /\ UNCHANGED <<seq, call, first, last, stack, parts, buckets,
                 fault, oob, handled, reads>>

Next ==
  \/ SmallSort
  \/ CallDetail
  \/ BeginSkip
  \/ SkipEmpties
  \/ ReverseSkipEmpties
  \/ Enter
  \/ Count
  \/ Swap
  \/ PermuteDone
  \/ Fallback
  \/ Recurse
  \/ Leave

Spec == Init /\ [][Next]_vars

(***************************************************************************)
(* A second call: after an ascending call has returned, the caller sorts   *)
(* the same input again with one of the descending entry points.           *)
(***************************************************************************)
CallAgain ==
  /\ pc = "done"
  /\ prev = NoCall
  /\ ~IsReverse(entry)
  /\ comp \in {"none", "less"}
  /\ prev' = [entry |-> entry, comp |-> comp, out |-> seq]
  /\ entry' \in {"reverse_string_sort", "reverse_string_sort_functor"}
  /\ comp' = "greater"
  /\ seq' = input
  /\ pc' = "call"
  /\ first' = 1
  /\ last' = Len(input) + 1
  /\ stack' = <<>>
  /\ cur' = Idle
  /\ parts' = <<>>
  /\ buckets' = {}
  /\ handled' = {}
  /\ reads' = {}
  /\ UNCHANGED <<input, fault, oob>>

NextTwice ==
  \/ Next
  \/ CallAgain

SpecTwice == Init /\ [][NextTwice]_vars

\* The call runs on its own thread of control: while it has a step to take,
\* it takes it.
SpecLive == Spec /\ WF_vars(Next)

(***************************************************************************)
(* Faults.  Nothing in the entry points catches: a fault raised by a       *)
(* collaborator ends the call where it is raised.                          *)
(***************************************************************************)
\* std::sort compares while the element being inserted is held in a
\* temporary; a throwing comparison destroys the temporary and leaves its
\* slot moved-from.  A fault at the first comparison leaves the range as is.
SortFaultOutcomes(s, lo, hi) ==
  {s} \cup {[s EXCEPT ![p] = MovedFrom] : p \in (lo + 1) .. (hi - 1)}

\* iter_swap(a, b) is tmp = move(*a); *a = move(*b); *b = move(tmp); a move
\* that throws ends it part-way and tmp is destroyed.
SwapFaultOutcomes(s, i, j) ==
  {s, [s EXCEPT ![i] = MovedFrom], [s EXCEPT ![i] = s[j], ![j] = MovedFrom]}

\* Where an accessor is being called: a skip loop of an entry point, the
\* counting pass, or the permutation between two swaps.
AccessorSite ==
  IF pc \in {"skip", "rskip"} THEN "skip"
  ELSE IF cur.phase = "alloc" THEN "count" ELSE "permute"

\* Mutant: an accessor is called while a swap holds an element in its
\* temporary.
AccessorFault_MidMove ==
  /\ \/ /\ pc \in {"skip", "rskip"}
        /\ UNCHANGED seq
     \/ /\ pc = "engine" /\ cur.phase = "alloc"
        /\ UNCHANGED seq
     \/ /\ pc = "engine" /\ cur.phase = "permute"
        /\ LET r == NextMisplaced IN
             IF r.done THEN UNCHANGED seq
             ELSE seq' \in SwapFaultOutcomes(seq, r.p,
                    cur.fill[BinOf(seq[r.p], cur.offset, IsReverse(entry))])
  /\ pc' = "faulted"
  /\ fault' = FaultAt("accessor", AccessorSite)
  /\ UNCHANGED <<call, first, last, stack, cur, parts, buckets,
                 oob, handled, reads>>

\* length or getchar throws: in the skip loops, in the counting pass, or
\* between two swaps of the permutation.
AccessorFault ==
  /\ \/ pc \in {"skip", "rskip"}
     \/ pc = "engine" /\ cur.phase \in {"alloc", "permute"}
  /\ pc' = "faulted"
  /\ fault' = FaultAt("accessor", AccessorSite)
  /\ UNCHANGED <<seq, call, first, last, stack, cur, parts, buckets,
                 oob, handled, reads>>

\* Mutant: the counters are (re)allocated while the elements are swapped.
AllocFault_Late ==
  /\ pc = "engine"
  /\ cur.phase \in {"alloc", "permute"}
  /\ pc' = "faulted"
  /\ fault' = FaultAt("alloc", "alloc")
  /\ UNCHANGED <<seq, call, first, last, stack, cur, parts, buckets,
                 oob, handled, reads>>

\* The counters of a pass cannot be allocated (a vector resize throws).
AllocFault ==
  /\ pc = "engine"
  /\ cur.phase = "alloc"
  /\ pc' = "faulted"
  /\ fault' = FaultAt("alloc", "alloc")
  /\ UNCHANGED <<seq, call, first, last, stack, cur, parts, buckets,
                 oob, handled, reads>>

\* An element move throws inside a swap of the permutation.
SwapFault ==
  /\ pc = "engine"
  /\ cur.phase = "permute"
  /\ LET r == NextMisplaced IN
       /\ ~r.done
       /\ seq' \in SwapFaultOutcomes(seq, r.p,
                     cur.fill[BinOf(seq[r.p], cur.offset, IsReverse(entry))])
  /\ pc' = "faulted"
  /\ fault' = FaultAt("swap", "swap")
  /\ UNCHANGED <<call, first, last, stack, cur, parts, buckets,
                 oob, handled, reads>>

\* What a comparison inside std::sort calls: operator< or the functor
\* passed; for a bucket of the functor entry point without comp, the offset
\* comparison, which reads the keys through the accessors.
ComparisonCalls ==
  IF pc = "engine" /\ entry = "string_sort_functor" THEN "accessor"
  ELSE "comparator"

\* The comparison throws inside std::sort: on the whole range below
\* min_sort_size, or on one bucket.
ComparatorFault ==
  /\ \/ /\ pc = "call"
        /\ last - first < min_sort_size
        /\ last - first >= 2
        /\ seq' \in SortFaultOutcomes(seq, first, last)
     \/ /\ pc = "engine"
        /\ cur.phase = "dispatch"
        /\ Pending(cur, IsReverse(entry)) # {}
        /\ LET b == Min(Pending(cur, IsReverse(entry))) IN
             /\ UseFallback(cur, b)
             /\ seq' \in SortFaultOutcomes(seq, cur.bins[b], BinEnd(cur, b))
  /\ pc' = "faulted"
  /\ fault' = FaultAt(ComparisonCalls, "sort")
  /\ UNCHANGED <<call, first, last, stack, cur, parts, buckets,
                 oob, handled, reads>>

NextFault ==
  \/ Next
  \/ AccessorFault
  \/ AllocFault
  \/ SwapFault
  \/ ComparatorFault

SpecFault == Init /\ [][NextFault]_vars

(***************************************************************************)
(* Vocabulary of the properties.                                           *)
(***************************************************************************)
IsPerm(s, t) ==
  /\ Len(s) = Len(t)
  /\ \E p \in Perms(1 .. Len(s)) : \A i \in 1 .. Len(s) : s[i] = t[p[i]]

N == Len(input)

\* The functor passed, where one is passed, orders as the digits do.
CompAgrees == TakesComp(entry) => comp = DigitOrder(entry)

StrictPrefix(x, y) ==
  /\ Len(x) < Len(y)
  /\ \A i \in 1 .. Len(x) : x[i] = y[i]

KeysOf(s) == [i \in 1 .. Len(s) |-> s[i].k]

DistinctKeys(s) == \A i, j \in 1 .. Len(s) : s[i].k = s[j].k => i = j

Reversed(s) == [i \in 1 .. Len(s) |-> s[Len(s) + 1 - i]]

\* Number of leading zero-length keys of s.
LeadingEmpties(s) ==
  CHOOSE z \in 0 .. Len(s) :
    /\ \A i \in 1 .. z : length(s[i]) = 0
    /\ (z = Len(s) \/ length(s[z + 1]) # 0)

AllEmpty(s) == \A i \in 1 .. Len(s) : length(s[i]) = 0

\* Buckets of the same partitioning pass as b.
SamePass(b) ==
  {c \in buckets : c.plo = b.plo /\ c.phi = b.phi /\ c.offset = b.offset}

(***************************************************************************)
(* C1.  When a sort call returns, and the functor passed (if any) agrees   *)
(* with the digit order, the sequence is a permutation of the input and no *)
(* adjacent pair is out of the requested order; for inputs below, at and   *)
(* above min_sort_size.                                                    *)
(***************************************************************************)
C1_SortedPermutation ==
  (pc = "done" /\ CompAgrees) =>
     /\ IsPerm(seq, input)
     /\ Sorted(seq, 1, Len(seq) + 1, DigitOrder(entry))

\* A radix-sorted input of four keys that needed two passes (the shape of
\* banana, apple, band, ban -> apple, ban, banana, band).
C1_Witness ==
  /\ pc = "done"
  /\ entry = "string_sort_functor"
  /\ KeysOf(input) = << <<1, 0>>, <<0>>, <<1, 1>>, <<1>> >>
  /\ KeysOf(seq) = << <<0>>, <<1>>, <<1, 0>>, <<1, 1>> >>
  /\ Len(parts) = 2

(***************************************************************************)
(* C2.  Below min_sort_size every entry point returns without any radix    *)
(* partitioning, and the result is an outcome of the comparison sort of    *)
(* the whole range under the call's ordering: the functor passed, or       *)
(* ascending order where none is passed.                                   *)
(***************************************************************************)
C2_BelowThreshold ==
  (pc = "done" /\ N < min_sort_size) =>
     /\ parts = <<>>
     /\ buckets = {}
     /\ IsPerm(seq, input)
     /\ Sorted(seq, 1, N + 1, IF TakesComp(entry) THEN comp ELSE "less")

\* The descending entry point, given an ascending functor, sorted two
\* elements ascending.
C2_Witness ==
  /\ pc = "done"
  /\ N = 2
  /\ entry = "reverse_string_sort"
  /\ comp = "less"
  /\ seq # input
  /\ parts = <<>>

(***************************************************************************)
(* C3.  Prefix law.  After an ascending sort a key that is a strict prefix *)
(* of another key lies at a lower index; and in every pass the keys that   *)
(* end at the pass's offset are exactly the members of one bucket, which   *)
(* starts the pass's range, before every digit bucket.                     *)
(***************************************************************************)
C3_PrefixLaw ==
  (~IsReverse(entry) /\ CompAgrees) =>
     /\ pc = "done" =>
          \A i, j \in 1 .. Len(seq) :
             StrictPrefix(seq[i].k, seq[j].k) => i < j
     /\ \A b \in buckets :
          /\ \A i \in b.lo .. (b.hi - 1) :
               (length(seq[i]) = b.offset) <=> (b.bin = 0)
          /\ b.bin = 0 => b.lo = b.plo
          /\ b.bin # 0 =>
               \A t \in SamePass(b) : t.bin = 0 => t.hi <= b.lo

\* A pass at offset 1 made a terminal bucket, and the result holds a key
\* after its strict prefix, which the call had to move.
C3_Witness ==
  /\ pc = "done"
  /\ ~IsReverse(entry)
  /\ CompAgrees
  /\ \E b \in buckets : b.bin = 0 /\ b.offset = 1
  /\ \E i, j \in 1 .. Len(seq) :
        /\ StrictPrefix(seq[i].k, seq[j].k)
        /\ seq[i].id > seq[j].id

(***************************************************************************)
(* C4.  Reverse consistency.  For an input without two equal keys, the     *)
(* descending sort of the input is the ascending sort of the same input    *)
(* read backwards; in a descending pass the terminal bucket ends the       *)
(* pass's range and a bucket of a higher digit lies before one of a lower  *)
(* digit.                                                                  *)
(***************************************************************************)
C4_ReverseConsistency ==
  (prev # NoCall /\ DistinctKeys(input)) =>
     /\ pc = "done" => seq = Reversed(prev.out)
     /\ \A b \in buckets :
          /\ \A i \in b.lo .. (b.hi - 1) :
               (length(seq[i]) = b.offset) <=> (b.bin = Radix)
          /\ b.bin = Radix => b.hi = b.phi
          /\ \A c \in SamePass(b) :
               (b.bin # Radix /\ c.bin # Radix /\
                getchar(seq[b.lo], b.offset) > getchar(seq[c.lo], c.offset))
                  => b.hi <= c.lo

\* Descending sort of a, ab, b -> b, ab, a by the functor entry point,
\* after the ascending call.
C4_Witness ==
  /\ pc = "done"
  /\ prev # NoCall
  /\ entry = "reverse_string_sort_functor"
  /\ KeysOf(input) = << <<0>>, <<0, 1>>, <<1>> >>
  /\ KeysOf(prev.out) = << <<0>>, <<0, 1>>, <<1>> >>
  /\ KeysOf(seq) = << <<1>>, <<0, 1>>, <<0>> >>

C6_AllocFaultBeforeMoves ==
  fault.kind = "alloc" =>
     /\ cur.phase = "alloc"
     /\ \A i \in cur.lo .. (cur.hi - 1) : seq[i] = cur.onEntry[i]

\* The allocation failed in a pass below the first one, whose range
\* earlier passes had already rearranged.
C6_Witness ==
  /\ fault.kind = "alloc"
  /\ cur.offset = 1
  /\ cur.hi - cur.lo >= 3
  /\ \E i \in cur.lo .. (cur.hi - 1) : seq[i] # input[i]

(***************************************************************************)
(* C7.  As claimed: a call on a sequence that is already in the requested  *)
(* order leaves every element at the index it had.                         *)
(***************************************************************************)
C7_SortedInputUntouched ==
  (pc = "done" /\ CompAgrees /\ Sorted(input, 1, N + 1, DigitOrder(entry)))
     => seq = input

(***************************************************************************)
(* C7, amended.  A call on a sequence that is already in the requested     *)
(* order leaves at every index a key equal to the one it held, and leaves  *)
(* in place every element whose key no other element shares (elements with *)
(* equal keys may change places: the comparison sort is not stable).       *)
(***************************************************************************)
C7_SortedInputKeepsKeys ==
  (pc = "done" /\ CompAgrees /\ Sorted(input, 1, N + 1, DigitOrder(entry)))
     => /\ KeysOf(seq) = KeysOf(input)
        /\ \A i \in 1 .. N :
             (\A j \in 1 .. N : input[j].k = input[i].k => j = i)
                => seq[i] = input[i]

\* A sorted input at the threshold, with two equal keys that the call
\* exchanged.
C7_Witness ==
  /\ pc = "done"
  /\ CompAgrees
  /\ N >= min_sort_size
  /\ Sorted(input, 1, N + 1, DigitOrder(entry))
  /\ KeysOf(seq) = KeysOf(input)
  /\ seq # input

(***************************************************************************)
(* C8.  Ascending functor entry points, at or above min_sort_size: the     *)
(* leading zero-length keys are never moved; when every key is empty the   *)
(* call returns without a pass and with the sequence as it was; otherwise  *)
(* the first pass, and only the first, is at offset 0, on the range from   *)
(* the first non-empty key to the end.                                     *)
(***************************************************************************)
C8_AscendingSkip ==
  (entry \in {"string_sort_functor", "string_sort_functor_comp"}
   /\ N >= min_sort_size) =>
     LET z == LeadingEmpties(input) IN
       /\ \A i \in 1 .. z : seq[i] = input[i]
       /\ z = N => pc # "engine" /\ parts = <<>> /\ seq = input
       /\ (z < N /\ pc = "engine" /\ parts = <<>>) =>
             stack = <<Frame(z + 1, N + 1, 0, 0)>>
       /\ (z < N /\ parts # <<>>) =>
             /\ parts[1] = Frame(z + 1, N + 1, 0, 0)
             /\ \A i \in 2 .. Len(parts) : parts[i].offset > 0
       /\ (z < N /\ pc = "done") => parts # <<>>

\* Two leading empty keys were skipped and the two keys after them sorted.
C8_Witness ==
  /\ pc = "done"
  /\ entry = "string_sort_functor_comp"
  /\ N = 4
  /\ LeadingEmpties(input) = 2
  /\ parts[1] = Frame(3, 5, 0, 0)
  /\ seq # input

Passes == {parts[i] : i \in 1 .. Len(parts)}
          \cup {stack[i] : i \in 1 .. Len(stack)}

\* A later level of range [lo, hi): a pass within it at a greater offset.
LaterLevels(lo, hi, offset) ==
  {f \in Passes : lo <= f.lo /\ f.hi <= hi /\ f.offset > offset}

\* A bucket the controller has to act on: a digit bucket of two or more.
Eligible(b) == b.bin # TerminalBin(IsReverse(entry)) /\ b.hi - b.lo >= 2

DecisionsOn(b) ==
  {h \in handled : h.lo = b.lo /\ h.hi = b.hi /\ h.offset = b.offset}

\* C11: every non-terminal bucket of two or more elements gets its path's
\* split counter incremented; below the helper threshold or with the counter
\* at the cap it is sorted by the fallback sort and never partitioned again,
\* otherwise it is handed to the Bucket Partitioner at exactly offset + 1;
\* terminal buckets and buckets of one element get no further action, and
\* nothing is partitioned that the controller did not hand on.
C11_RecursionController ==
  /\ \A h \in handled :
       /\ h.splits = h.before + 1
       /\ \E b \in buckets : Eligible(b) /\ h \in DecisionsOn(b)
       /\ (h.how = "fallback") <=> \/ h.hi - h.lo < helper_threshold
                                   \/ h.splits >= max_splits
       /\ h.how = "fallback" => LaterLevels(h.lo, h.hi, h.offset) = {}
       /\ h.how = "recurse" =>
            /\ Frame(h.lo, h.hi, h.offset + 1, h.splits) \in Passes
            /\ \A f \in LaterLevels(h.lo, h.hi, h.offset) :
                 (f.lo = h.lo /\ f.hi = h.hi) \/ f.offset > h.offset + 1
  /\ \A b \in buckets :
       /\ Cardinality(DecisionsOn(b)) <= 1
       /\ ~Eligible(b) =>
            DecisionsOn(b) = {} /\ LaterLevels(b.lo, b.hi, b.offset) = {}
       /\ (pc = "done" /\ Eligible(b)) => DecisionsOn(b) # {}
  /\ \A f \in Passes :
       f.offset > 0 =>
         \E h \in handled :
           h.how = "recurse" /\ f = Frame(h.lo, h.hi, h.offset + 1, h.splits)

\* A call that has returned after the controller handed one bucket on, sorted
\* another of helper-threshold size because its path's counter was at the
\* cap, and left a terminal or one-element bucket alone.
C11_Witness ==
  /\ pc = "done"
  /\ \E h \in handled : h.how = "recurse"
  /\ \E h \in handled :
       /\ h.how = "fallback"
       /\ h.hi - h.lo >= helper_threshold
       /\ h.splits >= max_splits
  /\ \E b \in buckets : ~Eligible(b)

(***************************************************************************)
(* Termination and the depth of the recursion.                             *)
(***************************************************************************)
\* The passes the Bucket Partitioner has begun.
Begun == {parts[i] : i \in 1 .. Len(parts)}

\* The nesting level of pass f: the passes of its path down to f itself.
Level(f) ==
  Cardinality({g \in Begun : /\ g.lo <= f.lo /\ f.hi <= g.hi
                             /\ g.offset <= f.offset})

Max(S) == CHOOSE x \in S : \A y \in S : y <= x

\* Length of the longest key of the input (0 for an empty input).
LongestKey == Max({0} \cup {length(input[i]) : i \in 1 .. Len(input)})

\* Each level of a path works one offset further than the level above it.
OffsetPerLevel == \A f \in Begun : f.offset = Level(f) - 1

FunctorEntries == {"string_sort_functor", "string_sort_functor_comp",
                   "reverse_string_sort_functor"}

====
